---- MODULE Spec2Model ----
(***************************************************************************)
(* CFG -> CNF conversion (CNFConverter), CYK recognition (cyk_parse) and   *)
(* parse-tree reconstruction (reconstruct_tree) of cyk_engine.py, driven   *)
(* as main.py's ejecutar_cyk drives them.                                  *)
(*                                                                         *)
(* A grammar is a function from its keys (the left-hand sides) to sets of  *)
(* right-hand sides; a right-hand side is a sequence of symbol strings.    *)
(* Python's dict/set enumeration order is not fixed by the code, so every  *)
(* loop over a dict or a set whose order can influence the result takes    *)
(* its order as a nondeterministic choice.                                 *)
(***************************************************************************)
EXTENDS Integers, Sequences, FiniteSets, TLC

VARIABLES
    pc,              \* position of the driver (ejecutar_cyk / to_cnf)
    start,           \* CFG.start
    cfg_rules,       \* CNFConverter.cfg.rules: the grammar as loaded
    converted,       \* TRUE when the active grammar came out of to_cnf
    rules,           \* the working rule set of to_cnf, then cnf.rules
    start_nullable,  \* CFG.start_nullable of the active grammar
    fresh_id,        \* CNFConverter._fresh_id
    fresh_log,       \* every name _fresh returned, with the symbols present then
    tokens,          \* the token sequence handed to cyk_parse
    table,           \* CYKResult.table, keyed <<i, j>> (0-based, as the code)
    back,            \* CYKResult.back, keyed <<i, j, A>>
    loop,            \* the (L, i, k) position of the fill loops
    accepts,         \* CYKResult.accepts
    tree,            \* what reconstruct_tree returned
    prev             \* result of the previous parse of the same input

vars == <<pc, start, cfg_rules, converted, rules, start_nullable, fresh_id,
          fresh_log, tokens, table, back, loop, accepts, tree, prev>>

---------------------------------------------------------------------------
(* Bounds of the model *)

\* most productions of an input grammar
MaxProds == 3
\* longest token sequence parsed
MaxTokens == 3

\* the epsilon marker of load_from_file
EPS == "ε"

\* the start symbol tried
StartSymbol == "S"

\* productions an input grammar is drawn from: epsilon, unit, terminal,
\* mixed, binary and long right-hand sides, an undefined symbol (A when A
\* has no production) and a symbol spelled like a generated name
ProdPool ==
    { <<"S", <<EPS>>>>,
      <<"S", <<"a">>>>,
      <<"S", <<"A">>>>,
      <<"S", <<"a", "S">>>>,
      <<"S", <<"S", "S">>>>,
      <<"S", <<"A", "S", "a">>>>,
      <<"S", <<"A", "S", "A">>>>,
      <<"S", <<"T_a_1">>>>,
      <<"S", <<"BIN_1">>>>,
      <<"A", <<EPS>>>>,
      <<"A", <<"a">>>>,
      <<"A", <<"A", "A">>>> }

\* tokens an input is drawn from: a terminal and a grammar symbol's name
TokenPool == {"a", "A"}

RECURSIVE SeqsUpTo(_, _)
SeqsUpTo(S, n) ==
    IF n = 0 THEN { <<>> }
    ELSE LET shorter == SeqsUpTo(S, n - 1)
         IN  shorter \cup { Append(s, x) : s \in { t \in shorter : Len(t) = n - 1 }, x \in S }

TokenSeqs == SeqsUpTo(TokenPool, MaxTokens)

\* the grammar (a dict of sets) holding the productions ps
GrammarOf(ps) ==
    [ A \in { p[1] : p \in ps } |-> { p[2] : p \in { q \in ps : q[1] = A } } ]

InputGrammars ==
    { GrammarOf(ps) : ps \in { qs \in SUBSET ProdPool : Cardinality(qs) <= MaxProds } }

---------------------------------------------------------------------------
(* Helpers *)

\* the empty table and backpointer map, no tree (None), no loop position, no
\* earlier result
NoTable == <<>>
NoBack  == <<>>
NoTree  == <<>>
NoLoop  == <<0, 0, 0>>
NoPrev  == <<>>

Range(s) == { s[n] : n \in DOMAIN s }

\* every symbol a rule set mentions
Symbols(rs) ==
    DOMAIN rs \cup UNION { Range(rhs) : rhs \in UNION { rs[A] : A \in DOMAIN rs } }

\* all enumeration orders of a finite set
RECURSIVE Perms(_)
Perms(S) ==
    IF S = {} THEN { <<>> }
    ELSE UNION { { <<x>> \o p : p \in Perms(S \ {x}) } : x \in S }

\* dict.setdefault(key, set()).add(rhs)
AddRule(rs, key, rhs) ==
    IF key \in DOMAIN rs
    THEN [ rs EXCEPT ![key] = @ \cup {rhs} ]
    ELSE rs @@ (key :> {rhs})

\* the orders in which `for A, rhss in rules.items(): for rhs in rhss` can
\* meet the right-hand sides longer than minlen: keys in some dict order,
\* each key's set in some order
RECURSIVE Concat(_, _, _)
Concat(korder, perkey, n) ==
    IF n > Len(korder) THEN <<>>
    ELSE perkey[korder[n]] \o Concat(korder, perkey, n + 1)

ItemOrders(rs, minlen) ==
    LET long(A) == { rhs \in rs[A] : Len(rhs) > minlen }
        keys    == { A \in DOMAIN rs : long(A) # {} }
        perkeys == { f \in [ keys -> UNION { Perms(long(A)) : A \in keys } ] :
                       \A A \in keys : Range(f[A]) = long(A) }
    IN  { Concat(ko, [ A \in keys |-> [ n \in DOMAIN pk[A] |-> <<A, pk[A][n]>> ] ], 1) :
            ko \in Perms(keys), pk \in perkeys }

---------------------------------------------------------------------------
(* CNFConverter *)

\* _fresh: the name for counter value n (the counter after its increment)
FreshName(p, n) == p \o "_" \o ToString(n)

\* remove_unreachable
RECURSIVE ReachClosure(_, _)
ReachClosure(reach, rs) ==
    LET more == { X \in DOMAIN rs :
                    \E A \in reach \cap DOMAIN rs : \E rhs \in rs[A] : X \in Range(rhs) }
    IN  IF more \subseteq reach THEN reach ELSE ReachClosure(reach \cup more, rs)

RemoveUnreachable(st, rs) ==
    LET reach == ReachClosure({st}, rs)
    IN  [ A \in DOMAIN rs \cap reach |-> rs[A] ]

\* remove_epsilon, lines 107-116: the nullable set
RECURSIVE NullableClosure(_, _)
NullableClosure(nullable, rs) ==
    LET more == { A \in DOMAIN rs :
                    \E rhs \in rs[A] :
                        /\ rhs # <<EPS>>
                        /\ \A n \in DOMAIN rhs : rhs[n] \in DOMAIN rs /\ rhs[n] \in nullable }
    IN  IF more \subseteq nullable THEN nullable ELSE NullableClosure(nullable \cup more, rs)

NullableDirect(rs) == { A \in DOMAIN rs : <<EPS>> \in rs[A] }

\* lines 107-116 without the loop of lines 109-116: only the nonterminals with
\* an explicit epsilon production
NullableNoClosure(rs) == NullableDirect(rs)

NullableSet(rs) == NullableClosure(NullableDirect(rs), rs)

\* rhs without the positions in sub
RECURSIVE DropPositions(_, _, _)
DropPositions(rhs, sub, n) ==
    IF n > Len(rhs) THEN <<>>
    ELSE (IF n \in sub THEN <<>> ELSE <<rhs[n]>>) \o DropPositions(rhs, sub, n + 1)

\* remove_epsilon, lines 119-138: the rules without epsilon
EpsilonExpand(st, rs) ==
    LET nullable == NullableSet(rs)
        pos(rhs) == { n \in DOMAIN rhs : rhs[n] \in DOMAIN rs /\ rhs[n] \in nullable }
        expand(rhs) ==
            { nrhs \in { DropPositions(rhs, sub, 1) : sub \in SUBSET pos(rhs) } : Len(nrhs) # 0 }
              \cup (IF pos(rhs) = {} THEN {rhs} ELSE {})
        new == [ A \in DOMAIN rs |-> UNION { expand(rhs) : rhs \in rs[A] \ { <<EPS>> } } ]
    IN  [ A \in { B \in DOMAIN rs : new[B] # {} } |-> new[A] ]

\* remove_unit
IsUnit(rhs, NT) == Len(rhs) = 1 /\ rhs[1] \in NT

RECURSIVE UnitClosure(_, _)
UnitClosure(reached, rs) ==
    LET more == { B \in DOMAIN rs :
                    \E C \in reached : \E rhs \in rs[C] : IsUnit(rhs, DOMAIN rs) /\ rhs[1] = B }
    IN  IF more \subseteq reached THEN reached ELSE UnitClosure(reached \cup more, rs)

RemoveUnit(rs) ==
    LET NT == DOMAIN rs
    IN  [ A \in NT |->
            UNION { { rhs \in rs[B] : ~IsUnit(rhs, NT) } : B \in UnitClosure({A}, rs) } ]

\* terminals_to_unaries, lines 169-177: the names given to the terminals of
\* the right-hand sides of two or more symbols, met in the order `items`.
\* st = [map |-> term2nt, id |-> _fresh_id, names |-> the names generated]
RECURSIVE ScanRhs(_, _, _, _)
ScanRhs(rhs, n, NT, st) ==
    IF n > Len(rhs) THEN st
    ELSE LET s == rhs[n]
         IN  IF s \in NT \/ s \in DOMAIN st.map
             THEN ScanRhs(rhs, n + 1, NT, st)
             ELSE LET nt == FreshName("T_" \o s, st.id + 1)
                  IN  ScanRhs(rhs, n + 1, NT,
                              [ map   |-> st.map @@ (s :> nt),
                                id    |-> st.id + 1,
                                names |-> Append(st.names, nt) ])

RECURSIVE ScanItems(_, _, _, _)
ScanItems(items, n, NT, st) ==
    IF n > Len(items) THEN st
    ELSE ScanItems(items, n + 1, NT, ScanRhs(items[n][2], 1, NT, st))

\* terminals_to_unaries, lines 172-182: the rules once the terminals are named
IsolateTerminals(rs, map) ==
    LET NT == DOMAIN rs
        rep(rhs) == [ n \in DOMAIN rhs |-> IF rhs[n] \in NT THEN rhs[n] ELSE map[rhs[n]] ]
        new == [ A \in NT |-> { IF Len(rhs) >= 2 THEN rep(rhs) ELSE rhs : rhs \in rs[A] } ]
        named == { map[t] : t \in DOMAIN map }
    IN  [ A \in NT \cup named |->
            (IF A \in NT THEN new[A] ELSE {})
              \cup { <<t>> : t \in { u \in DOMAIN map : map[u] = A } } ]

\* terminals_to_unaries: [rules, id, names] for the enumeration order `items`
TerminalsToUnaries(rs, fid, items) ==
    LET st == ScanItems(items, 1, DOMAIN rs, [ map |-> <<>>, id |-> fid, names |-> <<>> ])
    IN  [ rules |-> IsolateTerminals(rs, st.map), id |-> st.id, names |-> st.names ]

\* binarize, lines 196-202: the chain for what is left of one long right-hand side.
\* st = [rules |-> new, id |-> _fresh_id, names |-> the names generated]
RECURSIVE BinChain(_, _, _)
BinChain(st, prv, rest) ==
    IF Len(rest) > 2
    THEN LET nxt == FreshName("BIN", st.id + 1)
         IN  BinChain([ rules |-> AddRule(st.rules, prv, <<rest[1], nxt>>),
                        id    |-> st.id + 1,
                        names |-> Append(st.names, nxt) ],
                      nxt, Tail(rest))
    ELSE [ st EXCEPT !.rules = AddRule(st.rules, prv, <<rest[1], rest[2]>>) ]

\* binarize, lines 192-195: one right-hand side of more than two symbols
BinarizeOne(st, A, rhs) ==
    LET prv == FreshName("BIN", st.id + 1)
    IN  BinChain([ rules |-> AddRule(st.rules, A, <<rhs[1], prv>>),
                   id    |-> st.id + 1,
                   names |-> Append(st.names, prv) ],
                 prv, Tail(rhs))

RECURSIVE BinarizeItems(_, _, _)
BinarizeItems(items, n, st) ==
    IF n > Len(items) THEN st
    ELSE BinarizeItems(items, n + 1, BinarizeOne(st, items[n][1], items[n][2]))

\* binarize: [rules, id, names] for the enumeration order `items`
Binarize(rs, fid, items) ==
    BinarizeItems(items, 1,
                  [ rules |-> [ A \in DOMAIN rs |-> { rhs \in rs[A] : Len(rhs) <= 2 } ],
                    id    |-> fid,
                    names |-> <<>> ])

\* the log entries for the names one pass generated over the rules rs
Logged(names, rs) ==
    [ n \in DOMAIN names |-> [ name |-> names[n], present |-> Symbols(rs) ] ]

---------------------------------------------------------------------------
(* The driver: a loaded grammar is used as it is or converted *)

Init ==
    /\ pc = "loaded"
    /\ start = StartSymbol
    /\ cfg_rules \in InputGrammars
    /\ rules = cfg_rules
    /\ converted = FALSE
    /\ start_nullable = FALSE
    /\ fresh_id = 0
    /\ fresh_log = <<>>
    /\ tokens = <<>>
    /\ table = NoTable
    /\ back = NoBack
    /\ loop = NoLoop
    /\ accepts = FALSE
    /\ tree = NoTree
    /\ prev = NoPrev

parseVars == <<tokens, table, back, loop, accepts, tree, prev>>

\* ejecutar_cyk, the branch that takes the loaded grammar as already in CNF
UseLoaded ==
    /\ pc = "loaded"
    /\ pc' = "ready"
    /\ UNCHANGED <<start, cfg_rules, converted, rules, start_nullable, fresh_id,
                   fresh_log, parseVars>>

\* to_cnf, line 206
ToCnfUnreachable ==
    /\ pc = "loaded"
    /\ rules' = RemoveUnreachable(start, cfg_rules)
    /\ pc' = "pruned"
    /\ UNCHANGED <<start, cfg_rules, converted, start_nullable, fresh_id, fresh_log,
                   parseVars>>

\* to_cnf, line 207
ToCnfEpsilon ==
    /\ pc = "pruned"
    /\ start_nullable' = (start \in NullableSet(rules))
    /\ rules' = EpsilonExpand(start, rules)
    /\ pc' = "noeps"
    /\ UNCHANGED <<start, cfg_rules, converted, fresh_id, fresh_log, parseVars>>

\* to_cnf, line 208
ToCnfUnit ==
    /\ pc = "noeps"
    /\ rules' = RemoveUnit(rules)
    /\ pc' = "nounit"
    /\ UNCHANGED <<start, cfg_rules, converted, start_nullable, fresh_id, fresh_log,
                   parseVars>>

\* to_cnf, line 209
ToCnfTerminals ==
    /\ pc = "nounit"
    /\ \E items \in ItemOrders(rules, 1) :
          LET r == TerminalsToUnaries(rules, fresh_id, items)
          IN  /\ rules' = r.rules
              /\ fresh_id' = r.id
              /\ fresh_log' = fresh_log \o Logged(r.names, rules)
    /\ pc' = "isolated"
    /\ UNCHANGED <<start, cfg_rules, converted, start_nullable, parseVars>>

\* to_cnf, lines 210-211
ToCnfBinarize ==
    /\ pc = "isolated"
    /\ \E items \in ItemOrders(rules, 2) :
          LET r == Binarize(rules, fresh_id, items)
          IN  /\ rules' = r.rules
              /\ fresh_id' = r.id
              /\ fresh_log' = fresh_log \o Logged(r.names, rules)
    /\ converted' = TRUE
    /\ pc' = "ready"
    /\ UNCHANGED <<start, cfg_rules, start_nullable, parseVars>>

---------------------------------------------------------------------------
(* cyk_parse *)

\* rhs2lhs[rhs], lines 226-229
Producers(rs, rhs) == { A \in DOMAIN rs : rhs \in rs[A] }

\* lines 231-238: the table with its diagonal filled
DiagonalTable(rs, w) ==
    LET n == Len(w)
    IN  [ c \in (0 .. n - 1) \X (0 .. n - 1) |->
            IF c[1] = c[2] THEN Producers(rs, <<w[c[1] + 1]>>) ELSE {} ]

\* lines 235-238 without line 238: the diagonal enters the table unrecorded
DiagonalBackMissing(rs, w) == NoBack

\* line 238: the backpointers of the diagonal
DiagonalBack(rs, w) ==
    LET keys == { <<i, i, A>> : i \in 0 .. Len(w) - 1, A \in DOMAIN rs }
    IN  [ key \in { q \in keys : q[3] \in Producers(rs, <<w[q[1] + 1]>>) } |->
            <<"unary", w[key[1] + 1]>> ]

\* lines 246-249 with the guard of line 247 dropped: every producer of (B, C)
\* records its split again
CombineOverwrite(st, rs, i, j, k, B, C) ==
    LET found == Producers(rs, <<B, C>>)
        fresh == [ key \in { <<i, j, A>> : A \in found } |-> <<"binary", k, B, C>> ]
    IN  [ cell |-> st.cell \cup found, back |-> fresh @@ st.back ]

\* lines 246-249 with the children of line 249 recorded in the wrong order
CombineSwapped(st, rs, i, j, k, B, C) ==
    LET added == Producers(rs, <<B, C>>) \ st.cell
    IN  [ cell |-> st.cell \cup added,
          back |-> st.back @@ [ key \in { <<i, j, A>> : A \in added } |-> <<"binary", k, C, B>> ] ]

\* lines 246-249: the producers of (B, C) not yet in cell (i, j) enter it,
\* each with the split (k, B, C).  st = [cell |-> table[i][j], back |-> back]
Combine(st, rs, i, j, k, B, C) ==
    LET added == Producers(rs, <<B, C>>) \ st.cell
    IN  [ cell |-> st.cell \cup added,
          back |-> st.back @@ [ key \in { <<i, j, A>> : A \in added } |-> <<"binary", k, B, C>> ] ]

\* lines 244-245: the pairs (B, C) as the nested loops meet them, for the
\* enumeration orders ordB of table[i][k] and ordC of table[k+1][j]
PairOrder(ordB, ordC) ==
    [ n \in 1 .. Len(ordB) * Len(ordC) |->
        << ordB[((n - 1) \div Len(ordC)) + 1], ordC[((n - 1) % Len(ordC)) + 1] >> ]

RECURSIVE CombineAll(_, _, _, _, _, _, _)
CombineAll(st, rs, i, j, k, pairs, n) ==
    IF n > Len(pairs) THEN st
    ELSE CombineAll(Combine(st, rs, i, j, k, pairs[n][1], pairs[n][2]),
                    rs, i, j, k, pairs, n + 1)

\* lines 240-243: the loop position after (L, i, k); <<0, 0, 0>> when the loops end
NextLoop(L, i, k, n) ==
    IF k + 1 < i + L - 1 THEN <<L, i, k + 1>>
    ELSE IF i + 1 <= n - L THEN <<L, i + 1, i + 1>>
    ELSE IF L + 1 <= n THEN <<L + 1, 0, 0>>
    ELSE <<0, 0, 0>>

\* the input read is free, except that a repetition reads the same input again
MayRead(w) == IF prev = NoPrev THEN TRUE ELSE w = prev[1].tokens

cnfVars == <<start, cfg_rules, converted, rules, start_nullable, fresh_id, fresh_log>>

\* cyk_parse, lines 223-225: the empty input
CykEmpty ==
    /\ pc = "ready"
    /\ MayRead(<<>>)
    /\ tokens' = <<>>
    /\ accepts' = start_nullable
    /\ table' = NoTable
    /\ back' = NoBack
    /\ pc' = "parsed"
    /\ UNCHANGED <<cnfVars, loop, tree, prev>>

\* cyk_parse, lines 223-238: a nonempty input, up to the filled diagonal
CykDiagonal ==
    /\ pc = "ready"
    /\ \E w \in TokenSeqs :
          /\ Len(w) > 0
          /\ MayRead(w)
          /\ tokens' = w
          /\ table' = DiagonalTable(rules, w)
          /\ back' = DiagonalBack(rules, w)
          /\ loop' = IF Len(w) >= 2 THEN <<2, 0, 0>> ELSE NoLoop
          /\ pc' = IF Len(w) >= 2 THEN "fill" ELSE "filled"
    /\ UNCHANGED <<cnfVars, accepts, tree, prev>>

\* cyk_parse, lines 240-249: one split point k of one span (i, j)
CykFill ==
    /\ pc = "fill"
    /\ LET L == loop[1]
           i == loop[2]
           k == loop[3]
           j == i + L - 1
       IN  /\ \E ordB \in Perms(table[<<i, k>>]), ordC \in Perms(table[<<k + 1, j>>]) :
                 LET st == CombineAll([ cell |-> table[<<i, j>>], back |-> back ],
                                      rules, i, j, k, PairOrder(ordB, ordC), 1)
                 IN  /\ table' = [ table EXCEPT ![<<i, j>>] = st.cell ]
                     /\ back' = st.back
           /\ loop' = NextLoop(L, i, k, Len(tokens))
           /\ pc' = IF NextLoop(L, i, k, Len(tokens)) = NoLoop THEN "filled" ELSE "fill"
    /\ UNCHANGED <<cnfVars, tokens, accepts, tree, prev>>

\* cyk_parse, line 251
CykReturn ==
    /\ pc = "filled"
    /\ accepts' = (start \in table[<<0, Len(tokens) - 1>>])
    /\ pc' = "parsed"
    /\ UNCHANGED <<cnfVars, tokens, table, back, loop, tree, prev>>

---------------------------------------------------------------------------
(* ParseTreeNode and reconstruct_tree: a node is <<label, children>> *)

Node(label, children) == <<label, children>>

\* reconstruct_tree.build
RECURSIVE Build(_, _, _, _)
Build(bk, i, j, A) ==
    IF <<i, j, A>> \notin DOMAIN bk THEN NoTree
    ELSE LET info == bk[<<i, j, A>>]
         IN  IF info[1] = "unary"
             THEN Node(A, << Node(info[2], <<>>) >>)
             ELSE LET lft == Build(bk, i, info[2], info[3])
                      rgt == Build(bk, info[2] + 1, j, info[4])
                  IN  IF lft = NoTree \/ rgt = NoTree THEN NoTree
                      ELSE Node(A, <<lft, rgt>>)

\* reconstruct_tree
ReconstructTree(w, acc, bk, st) ==
    IF Len(w) = 0
    THEN (IF acc THEN Node(st, << Node(EPS, <<>>) >>) ELSE NoTree)
    ELSE Build(bk, 0, Len(w) - 1, st)

\* ParseTreeNode.bracketed
RECURSIVE Bracketed(_)
RECURSIVE JoinBracketed(_, _)
JoinBracketed(children, n) ==
    IF n = Len(children) THEN Bracketed(children[n])
    ELSE Bracketed(children[n]) \o " " \o JoinBracketed(children, n + 1)

Bracketed(t) ==
    IF t[2] = <<>> THEN t[1]
    ELSE "(" \o t[1] \o " " \o JoinBracketed(t[2], 1) \o ")"

\* the call reconstruct_tree(tokens, res, cnf.start)
Reconstruct ==
    /\ pc = "parsed"
    /\ tree' = ReconstructTree(tokens, accepts, back, start)
    /\ pc' = "done"
    /\ UNCHANGED <<cnfVars, tokens, table, back, loop, accepts, prev>>

\* ejecutar_cyk's input loop reads the same input once more: the result just
\* obtained is kept for comparison and cyk_parse starts afresh
Repeat ==
    /\ pc = "done"
    /\ prev = NoPrev
    /\ prev' = << [ tokens |-> tokens, accepts |-> accepts, table |-> table, tree |-> tree ] >>
    /\ table' = NoTable
    /\ back' = NoBack
    /\ loop' = NoLoop
    /\ accepts' = FALSE
    /\ tree' = NoTree
    /\ pc' = "ready"
    /\ UNCHANGED <<cnfVars, tokens>>

---------------------------------------------------------------------------
(* Specifications *)

Next ==
    \/ UseLoaded
    \/ ToCnfUnreachable
    \/ ToCnfEpsilon
    \/ ToCnfUnit
    \/ ToCnfTerminals
    \/ ToCnfBinarize
    \/ CykEmpty
    \/ CykDiagonal
    \/ CykFill
    \/ CykReturn
    \/ Reconstruct

\* one grammar, used as loaded or converted, and one input parsed
Spec == Init /\ [][Next]_vars

\* the same, with the input parsed a second time
SpecRepeat == Init /\ [][Next \/ Repeat]_vars

---------------------------------------------------------------------------
(* Reference notions the claims are stated with *)

n == Len(tokens)

\* a right-hand side in Chomsky normal form: one terminal (no key of rs) or
\* two nonterminals (keys of rs)
IsCnfRhs(rs, rhs) ==
    \/ Len(rhs) = 1 /\ rhs[1] \notin DOMAIN rs
    \/ Len(rhs) = 2 /\ rhs[1] \in DOMAIN rs /\ rhs[2] \in DOMAIN rs

IsCNF(rs) == \A A \in DOMAIN rs : \A rhs \in rs[A] : IsCnfRhs(rs, rhs)

\* the nullable nonterminals of G: the least set closed under "A has an
\* epsilon production or a production of nullable nonterminals only"
NullableRef(G) ==
    LET K == DOMAIN G
        closed(X) == \A A \in K :
                        (\E rhs \in G[A] : rhs = <<EPS>> \/ \A m \in DOMAIN rhs : rhs[m] \in X)
                            => A \in X
    IN  { A \in K : \A X \in SUBSET K : closed(X) => A \in X }

\* G derives w[i+1 .. j] from A, for every <<A, i, j>> of the least fixed
\* point D of the productions of G
RECURSIVE MatchRhs(_, _, _, _, _, _, _)
MatchRhs(rhs, p, i, j, D, G, w) ==
    IF p > Len(rhs) THEN i = j
    ELSE \E m \in i .. j :
            /\ IF rhs[p] \in DOMAIN G THEN <<rhs[p], i, m>> \in D
               ELSE m = i + 1 /\ w[m] = rhs[p]
            /\ MatchRhs(rhs, p + 1, m, j, D, G, w)

RECURSIVE DeriveClosure(_, _, _)
DeriveClosure(D, G, w) ==
    LET more == { d \in (DOMAIN G) \X (0 .. Len(w)) \X (0 .. Len(w)) :
                    /\ d[2] <= d[3]
                    /\ \E rhs \in G[d[1]] :
                          IF rhs = <<EPS>> THEN d[2] = d[3]
                          ELSE MatchRhs(rhs, 1, d[2], d[3], D, G, w) }
    IN  IF more \subseteq D THEN D ELSE DeriveClosure(D \cup more, G, w)

Derives(G, st, w) ==
    IF st \in DOMAIN G THEN <<st, 0, Len(w)>> \in DeriveClosure({}, G, w)
    ELSE w = <<st>>

\* the leaves of a tree, left to right
RECURSIVE Leaves(_)
RECURSIVE LeavesOf(_, _)
LeavesOf(children, m) ==
    IF m > Len(children) THEN <<>>
    ELSE Leaves(children[m]) \o LeavesOf(children, m + 1)

Leaves(t) == IF t[2] = <<>> THEN <<t[1]>> ELSE LeavesOf(t[2], 1)

IsLeaf(t) == t[2] = <<>>

\* every internal node of t applies a production of rs
RECURSIVE NodesValid(_, _)
NodesValid(t, rs) ==
    \/ IsLeaf(t)
    \/ /\ Len(t[2]) = 1
       /\ IsLeaf(t[2][1])
       /\ t[1] \in DOMAIN rs
       /\ <<t[2][1][1]>> \in rs[t[1]]
    \/ /\ Len(t[2]) = 2
       /\ ~IsLeaf(t[2][1])
       /\ ~IsLeaf(t[2][2])
       /\ t[1] \in DOMAIN rs
       /\ <<t[2][1][1], t[2][2][1]>> \in rs[t[1]]
       /\ NodesValid(t[2][1], rs)
       /\ NodesValid(t[2][2], rs)

ValidDerivation(t, st, w, rs) ==
    /\ t # NoTree
    /\ t[1] = st
    /\ ~IsLeaf(t)
    /\ Leaves(t) = w
    /\ NodesValid(t, rs)

\* the backpointers reachable from (i, j, A) all exist
RECURSIVE FollowedExist(_, _, _, _)
FollowedExist(bk, i, j, A) ==
    /\ <<i, j, A>> \in DOMAIN bk
    /\ \/ bk[<<i, j, A>>][1] = "unary"
       \/ /\ bk[<<i, j, A>>][1] = "binary"
          /\ FollowedExist(bk, i, bk[<<i, j, A>>][2], bk[<<i, j, A>>][3])
          /\ FollowedExist(bk, bk[<<i, j, A>>][2] + 1, j, bk[<<i, j, A>>][4])

\* the (i, j, A) with A in table[i][j]
TableEntries == UNION { { <<c[1], c[2], A>> : A \in table[c] } : c \in DOMAIN table }

\* the split points k at which some B of cell (i, k) and C of cell (k+1, j)
\* have A -> B C
Splits(i, j, A) ==
    { k \in i .. j - 1 :
        \E B \in table[<<i, k>>], C \in table[<<k + 1, j>>] : <<B, C>> \in rules[A] }

Least(S) == CHOOSE x \in S : \A y \in S : x <= y

Parsed == pc \in {"parsed", "done"}

---------------------------------------------------------------------------
(* Claims *)

\* C1: every right-hand side of CNFConverter(G).to_cnf() is one terminal of
\* the output grammar or two nonterminals of the output grammar.
C1_CnfWellFormed == converted => IsCNF(rules)

\* C2: cyk_parse(CNFConverter(G).to_cnf(), w).accepts is true exactly when G
\* derives w from its start symbol.
C2_LanguageEquivalence ==
    (converted /\ Parsed) => (accepts = Derives(cfg_rules, start, tokens))

\* C3: on the empty input the converted grammar accepts exactly when the
\* start symbol of G is nullable in G, the table and the backpointer map are
\* empty, and on acceptance the tree reads "(S ε)" for the start symbol S.
C3_EmptyInput ==
    (converted /\ Parsed /\ tokens = <<>>) =>
        /\ accepts = (start \in NullableRef(cfg_rules))
        /\ table = NoTable
        /\ back = NoBack
        /\ (pc = "done" /\ accepts) => tree # NoTree /\ Bracketed(tree) = "(" \o start \o " ε)"

\* C3's case: the empty input accepted through a chain of nullable nonterminals
C3_Witness ==
    /\ pc = "done" /\ converted /\ tokens = <<>> /\ accepts
    /\ <<EPS>> \notin cfg_rules[start]
    /\ Bracketed(tree) = "(S ε)"

\* C4: reconstruct_tree returns no tree exactly when the parse does not
\* accept; when it accepts, every backpointer followed from (0, n-1, start)
\* exists.
C4_NoTreeIffRejected ==
    /\ pc = "done" => ((tree = NoTree) <=> ~accepts)
    /\ (Parsed /\ accepts /\ n > 0) => FollowedExist(back, 0, n - 1, start)

\* C4's case: an accepted input of three tokens of a CNF grammar, its tree built
C4_Witness ==
    /\ pc = "done" /\ accepts /\ n = 3 /\ IsCNF(rules)
    /\ tree # NoTree

\* C5: two parses of the same grammar and tokens give the same verdict, the
\* same table and trees with the same bracketed string, whatever the order in
\* which the sets are enumerated.
C5_Deterministic ==
    (pc = "done" /\ prev # NoPrev) =>
        /\ prev[1].accepts = accepts
        /\ prev[1].table = table
        /\ (prev[1].tree = NoTree) = (tree = NoTree)
        /\ (tree # NoTree /\ prev[1].tree # NoTree) =>
               Bracketed(prev[1].tree) = Bracketed(tree)

\* C6: converting a grammar with no productions, or whose start symbol has
\* none, fails: to_cnf returns no grammar for it.
C6_RejectsUndefinedStart ==
    (DOMAIN cfg_rules = {} \/ start \notin DOMAIN cfg_rules) => ~converted

\* C7: every nonterminal of the grammar to_cnf returns is reachable from the
\* start symbol through the returned productions.
C7_AllReachable ==
    converted => DOMAIN rules \subseteq ReachClosure({start}, rules)

\* C8: every name _fresh generates differs from every symbol present in the
\* grammar being converted and from every other generated name.
C8_FreshNamesUnique ==
    \A m \in DOMAIN fresh_log :
        /\ fresh_log[m].name \notin fresh_log[m].present
        /\ \A m2 \in DOMAIN fresh_log : m2 # m => fresh_log[m2].name # fresh_log[m].name

\* a step of the fill keeps every backpointer it finds and writes one exactly
\* for each nonterminal that enters a cell in that step
BackWrittenOnce ==
    pc = "fill" =>
        /\ \A key \in DOMAIN back : key \in DOMAIN back' /\ back'[key] = back[key]
        /\ DOMAIN back' \ DOMAIN back =
               UNION { { <<c[1], c[2], A>> : A \in table'[c] \ table[c] } : c \in DOMAIN table }

\* once the table is filled, the split recorded for A over a span i < j is the
\* least k at which A -> B C applies
SmallestSplit ==
    (pc \in {"filled", "parsed", "done"} /\ n > 0) =>
        \A key \in TableEntries :
            key[1] < key[2] =>
                /\ key \in DOMAIN back
                /\ back[key][1] = "binary"
                /\ Splits(key[1], key[2], key[3]) # {}
                /\ back[key][2] = Least(Splits(key[1], key[2], key[3]))

\* C9: a backpointer is written once, when its nonterminal first enters the
\* cell, and never overwritten; so the split recorded for a span i < j is the
\* smallest applicable k.
C9_FirstSplitWins == [][BackWrittenOnce]_vars /\ []SmallestSplit

\* C9's case: a nonterminal of the top cell that two split points derive
C9_Witness ==
    /\ pc = "filled" /\ n = 3
    /\ \E A \in table[<<0, 2>>] : Splits(0, 2, A) = {0, 1} /\ back[<<0, 2, A>>][2] = 0

\* C10: the tree of a nonempty accepted input is a derivation of the input in
\* the grammar; the backpointer keys are the table's entries and each binary
\* backpointer (k, B, C) of (i, j, A) has i <= k < j, B in cell (i, k) and C in
\* cell (k+1, j).
C10_ValidTree ==
    /\ (pc = "done" /\ accepts /\ n > 0) => ValidDerivation(tree, start, tokens, rules)
    /\ (pc \in {"filled", "parsed", "done"} /\ n > 0) =>
          /\ DOMAIN back = TableEntries
          /\ \A key \in DOMAIN back :
                back[key][1] = "binary" =>
                    /\ key[1] <= back[key][2] /\ back[key][2] < key[2]
                    /\ back[key][3] \in table[<<key[1], back[key][2]>>]
                    /\ back[key][4] \in table[<<back[key][2] + 1, key[2]>>]

\* C10's case: the tree of an accepted input of three tokens of a CNF grammar
\* with two different children under one node
C10_Witness ==
    /\ pc = "done" /\ accepts /\ n = 3 /\ IsCNF(rules)
    /\ ValidDerivation(tree, start, tokens, rules)
    /\ \E key \in DOMAIN back : back[key][1] = "binary" /\ back[key][3] # back[key][4]

====
